---- MODULE Spec2Model ----
(***************************************************************************)
(* The camera acquisition and frame-capture logic of the food-scanner     *)
(* page (src/app/food-scanner/page.tsx, component FoodScannerPage).       *)
(*                                                                         *)
(* One action is one uninterrupted run of JavaScript: an event handler or *)
(* the continuation of an await, together with the React render it        *)
(* schedules (the state setters are batched and committed, with the       *)
(* [stream] effect cleanup, before the next event is handled).  A handler *)
(* therefore reads videoRef.current and the state captured by its closure *)
(* as they were committed BEFORE the step.                                 *)
(*                                                                         *)
(* The component starts rendered with its effects not yet run; the mount  *)
(* effect runs checkCameraPermission.  After the unmount the pending      *)
(* continuations and callbacks still run, their state setters being       *)
(* no-ops; localStorage writes, toasts and track.stop() still take effect. *)
(***************************************************************************)
EXTENDS Integers, FiniteSets, Sequences, TLC

\* ---- bounds ----
MaxCalls == 2      \* startCamera calls in progress at once (one stream id per call)
MaxEncodes == 1    \* canvas.toBlob callbacks that may be pending at once
MaxReads == 1      \* FileReader reads that may be pending at once

Calls == 1..MaxCalls

\* ---- program constants ----
DefaultWidth == 640
DefaultHeight == 480
NativeWidth == 1280
NativeHeight == 720
OffsetWidth == 448
OffsetHeight == 300
CanvasDefault == <<300, 150>>   \* the size of a new <canvas>

\* ---- messages ----
MsgNotSupportedThrown == "Camera not supported in this browser"
MsgTimerReject == "Camera access timed out. Please check permissions."
MsgPlaybackThrown == "Could not start video playback"
MsgDeviceBusy == "Could not start video source"
ErrDenied == "Camera access denied. Please click the camera icon in your browser's address bar and allow access, then try again."
ErrNotFound == "No camera found on this device."
ErrNotSupported == "Camera not supported in this browser."
ErrTimeout == "Camera access timed out. Please ensure you click \"Allow\" when prompted for camera permissions."
ErrPrefix == "Could not access camera. "
ErrVideo == "Video playback error"
ToastStarted == "Camera started successfully!"
ToastNotReady == "Camera not ready. Please wait for the video to load."
ToastCaptured == "Photo captured! You can now scan it."
ToastEncodeFailed == "Failed to create image from camera"
ToastCameraNotReady == "Camera not ready"
ToastVideoNotReady == "Video not ready yet. Please wait a moment."
ToastLiveScanned == "Label scanned from camera"
ToastFileScanned == "Food scanned successfully"
MsgBlobFailed == "Failed to capture image from canvas"
MsgScanLabelFailed == "Failed to scan label"
MsgFetchFailed == "Failed to fetch"
MsgBothFailedLive == "Both AI and OCR analysis failed. Please try with better lighting or closer to the label."
MsgBothFailedFile == "Both AI and OCR analysis failed. Please try with a clearer image."
ApiAi == "/api/ai_analyze"
ApiOcr == "/api/scan_label"
\* Object.keys(result.nutritional_info).length < 3
MinKeys == 3

\* error.message.includes('timed out'), over the messages that can occur
IncludesTimedOut(message) == message \in {MsgTimerReject}

\* errorMessage += error.message
Unclassified(message) == ErrPrefix \o message

\* the errors getUserMedia can reject with: [name, message]
GumErrors ==
  { [name |-> "NotAllowedError", message |-> "Permission denied"],
    [name |-> "NotFoundError", message |-> "Requested device not found"],
    [name |-> "NotSupportedError", message |-> "Not supported"],
    [name |-> "NotReadableError", message |-> MsgDeviceBusy] }

\* the states a PermissionStatus can be in
PermissionStates == {"prompt", "granted", "denied"}

VARIABLES
  supported,           \* navigator.mediaDevices.getUserMedia exists
  permissions,         \* navigator.permissions: "absent" or "present"
  mounted,             \* the component: "mounting" (rendered, effects not yet run),
                       \* "mounted" or "unmounted"
  query,               \* the promise of navigator.permissions.query
  listening,           \* permission.onchange is set
  selectedImage, imagePreview, scannedResult,
  isCameraActive, stream, scanMode, cameraError, videoReady,
  isRequestingCamera, permissionState,
  cache,               \* localStorage['camera-permission']
  open,                \* the MediaStreams that have a track not yet stopped
  srcObject, vstate,   \* the mounted <video>: its srcObject and load state
  canvas,              \* <<width, height>> of the hidden canvas
  encodeQueue,         \* pending toBlob callbacks: the stream their closure holds
  calls,               \* the startCamera calls in progress, see IdleCall
  toast,               \* the toast raised by the last step ("none" if none)
  stops,               \* history: stopCamera calls in succession (capped at 2)
  isScanning,
  scan,                \* the scanWithAI / scanLiveCamera call in progress, see IdleScan
  reads,               \* FileReader.readAsDataURL calls whose onload is still to come
  verdicts             \* history: how scans ended whose AI result had fewer than
                       \* 3 nutritional keys and whose /api/scan_label answer was not 2xx

reactVars == <<selectedImage, imagePreview, scannedResult, isCameraActive, stream,
               scanMode, cameraError, videoReady, isRequestingCamera, permissionState>>
domVars == <<srcObject, vstate, canvas, encodeQueue>>
envVars == <<supported, permissions>>
\* what the camera handlers never change
scanVars == <<isScanning, scan, reads, verdicts>>
hostVars == <<envVars, scanVars, mounted, query, listening>>
vars == <<envVars, mounted, query, listening, reactVars, cache, open, domVars, calls,
          toast, stops, scanVars>>

\* One startCamera call.  pc: where the call stands; gum: its getUserMedia
\* promise; timer: its setTimeout; useTimeout: its local; readyP: its
\* videoReadyPromise; result: how it ended.  History: granted (permissionState
\* was 'granted' at the call), gumCalls (the getUserMedia requests it has made),
\* latest (no startCamera call has been made since this one).
IdleCall == [pc |-> "idle", gum |-> "none", timer |-> "off", useTimeout |-> FALSE,
             readyP |-> "none", result |-> "none", granted |-> FALSE, gumCalls |-> 0,
             latest |-> FALSE]

\* One scan.  pc: where the call stands ("blob": awaits canvas.toBlob, "ai":
\* awaits /api/ai_analyze, "ocr": awaits /api/scan_label); kind: "live" for
\* scanLiveCamera, "file" for scanWithAI; held: the stream of the render whose
\* stopCamera the call closes over; result: its local result when the AI
\* analysis has answered; log: the requests it has sent.
IdleScan == [pc |-> "idle", kind |-> "none", held |-> 0, result |-> "none", log |-> <<>>]

\* The component is mounted: its handlers can be invoked and its state setters
\* have an effect (on an unmounted component they are no-ops).
Alive == mounted = "mounted"

\* <video ref={videoRef}> is rendered only in camera mode with isCameraActive
VideoMounted == scanMode = "camera" /\ isCameraActive
\* <canvas ref={canvasRef}> is rendered in camera mode
CanvasMounted == scanMode = "camera"

\* the slot of the next startCamera call (0 when MaxCalls calls are in progress)
NextCall == IF \E i \in Calls : calls[i].pc = "idle"
            THEN CHOOSE i \in Calls : /\ calls[i].pc = "idle"
                                      /\ \A j \in Calls : calls[j].pc = "idle" => i <= j
            ELSE 0

Init ==
  /\ supported \in BOOLEAN
  /\ permissions \in {"absent", "present"}
  /\ mounted = "mounting"
  /\ query = "none" /\ listening = FALSE
  /\ selectedImage = "null" /\ imagePreview = "null" /\ scannedResult = "null"
  /\ isCameraActive = FALSE /\ stream = 0 /\ scanMode = "upload"
  /\ cameraError = "null" /\ videoReady = FALSE /\ isRequestingCamera = FALSE
  /\ permissionState = "unknown"
  /\ cache \in {"null"} \cup PermissionStates
  /\ open = {}
  /\ srcObject = 0 /\ vstate = "empty"
  /\ canvas = CanvasDefault
  /\ encodeQueue = <<>>
  /\ calls = [i \in Calls |-> IdleCall]
  /\ toast = "none"
  /\ stops = 0
  /\ isScanning = FALSE /\ scan = IdleScan /\ reads = 0 /\ verdicts = {}

\* ---- pure parts of startCamera ----

\* variant: the timer is raced whatever the permission state
UseTimeoutAlways(ps) == TRUE

\* const useTimeout = permissionState !== 'granted'
UseTimeout(ps) == ps # "granted"

\* the if/else chain of the catch block: the message shown for an error
ErrorMessage(error) ==
  IF error.name = "NotAllowedError" THEN ErrDenied
  ELSE IF error.name = "NotFoundError" THEN ErrNotFound
  ELSE IF error.name = "NotSupportedError" THEN ErrNotSupported
  ELSE IF IncludesTimedOut(error.message) THEN ErrTimeout
  ELSE Unclassified(error.message)

\* the class of the error taxonomy a failed call ends in
Classification(error) ==
  LET m == ErrorMessage(error)
  IN IF m = ErrDenied THEN "PermissionDenied"
     ELSE IF m = ErrNotFound THEN "DeviceNotFound"
     ELSE IF m = ErrNotSupported \/ m = Unclassified(MsgNotSupportedThrown) THEN "NotSupported"
     ELSE IF m = ErrTimeout THEN "Timeout"
     ELSE IF m = Unclassified(MsgPlaybackThrown) THEN "PlaybackFailed"
     ELSE "Unknown"

Failures == {"PermissionDenied", "DeviceNotFound", "NotSupported", "Timeout",
             "PlaybackFailed", "Unknown"}

ErrTimer == [name |-> "Error", message |-> MsgTimerReject]
ErrPlayback == [name |-> "Error", message |-> MsgPlaybackThrown]
ErrUnsupported == [name |-> "Error", message |-> MsgNotSupportedThrown]

\* ---- the render that follows a step ----

\* a call that waits on a <video> element which leaves the document: play() of
\* a removed element is rejected (AbortError), its loadeddata/error never fire
Detach(p) == IF p = "awaitPlay" THEN "playAborted"
             ELSE IF p = "awaitReady" THEN "hung" ELSE p

\* Nothing is left of call c with stream i: it has returned (or hangs on a
\* removed <video>), getUserMedia has settled and its stream is stopped and
\* unreferenced, also by the scan in progress; a timer it left armed can only reject a promise that is already
\* settled.  Its slot is then free for a new call.
Retired(c, i, nstream, nopen, nsrc, nqueue) ==
  /\ c.pc \in {"done", "hung"}
  /\ c.gum # "pending"
  /\ i \notin nopen
  /\ nstream # i /\ nsrc # i /\ scan.held # i
  /\ \A k \in 1..Len(nqueue) : nqueue[k] # i

\* Commit of the batched setters: the [stream] effect cleanup stops the tracks
\* of the stream the state held before, the <video> is mounted or removed, and
\* leaving camera mode removes the <canvas> (camera mode mounts a new one).
Render(ns, nopen, nactive, nmode, nsrc, nvstate, nqueue, ncalls) ==
  LET shown == nmode = "camera" /\ nactive
      removed == VideoMounted /\ ~shown
      fopen == IF stream # 0 /\ ns # stream THEN nopen \ {stream} ELSE nopen
      fsrc == IF shown THEN nsrc ELSE 0
      fcalls == [i \in Calls |-> IF removed
                                 THEN [ncalls[i] EXCEPT !.pc = Detach(ncalls[i].pc)]
                                 ELSE ncalls[i]]
  IN /\ stream' = ns
     /\ open' = fopen
     /\ isCameraActive' = nactive
     /\ scanMode' = nmode
     /\ srcObject' = fsrc
     /\ vstate' = IF shown THEN nvstate ELSE "empty"
     /\ encodeQueue' = nqueue
     /\ canvas' = IF nmode = "camera" THEN canvas ELSE CanvasDefault
     /\ calls' = [i \in Calls |-> IF Retired(fcalls[i], i, ns, fopen, fsrc, nqueue)
                                  THEN IdleCall ELSE fcalls[i]]

\* a step that leaves the camera session, the <video> and the calls as they are,
\* but for the calls given
Keep(ncalls) ==
  Render(stream, open, isCameraActive, scanMode, srcObject, vstate, encodeQueue, ncalls)

\* the calls in ended return with result r
Ended(ended, r, ncalls) ==
  [i \in Calls |-> IF i \in ended
                   THEN [ncalls[i] EXCEPT !.pc = "done", !.result = r, !.readyP = "none"]
                   ELSE ncalls[i]]

\* variant: a failed call asks for the camera once more before it gives up
CatchAndRetry(failed, error, ncalls) ==
  /\ cache' = IF error.name = "NotAllowedError" THEN "denied" ELSE cache
  /\ toast' = ErrorMessage(error)
  /\ UNCHANGED <<permissionState, cameraError, isRequestingCamera>>
  /\ Render(stream, open, isCameraActive, scanMode, srcObject, vstate, encodeQueue,
            [i \in Calls |->
               IF i \in failed /\ ncalls[i].gumCalls < 2
               THEN [ncalls[i] EXCEPT !.pc = "awaitGum", !.gum = "pending",
                                      !.readyP = "none",
                                      !.gumCalls = ncalls[i].gumCalls + 1]
               ELSE IF i \in failed
               THEN [ncalls[i] EXCEPT !.pc = "done", !.result = Classification(error),
                                      !.readyP = "none"]
               ELSE ncalls[i]])

\* variant: every failure is remembered as a denial
CatchDeniesAlways(failed, error, ncalls) ==
  /\ cache' = "denied"
  /\ toast' = ErrorMessage(error)
  /\ IF Alive
     THEN /\ permissionState' = "denied"
          /\ cameraError' = ErrorMessage(error)
          /\ isRequestingCamera' = FALSE
     ELSE UNCHANGED <<permissionState, cameraError, isRequestingCamera>>
  /\ Render(stream, open, FALSE, scanMode, srcObject, vstate, encodeQueue,
            Ended(failed, Classification(error), ncalls))

\* variant: the denial is shown but not remembered
CatchForgetsDenial(failed, error, ncalls) ==
  /\ toast' = ErrorMessage(error)
  /\ IF Alive
     THEN /\ cameraError' = ErrorMessage(error)
          /\ isRequestingCamera' = FALSE
     ELSE UNCHANGED <<cameraError, isRequestingCamera>>
  /\ UNCHANGED <<permissionState, cache>>
  /\ Render(stream, open, FALSE, scanMode, srcObject, vstate, encodeQueue,
            Ended(failed, Classification(error), ncalls))

\* catch (error) { ... } finally { setIsRequestingCamera(false) } for the calls in
\* failed (all rejected by the same event with the same error)
Catch(failed, error, ncalls) ==
  /\ cache' = IF error.name = "NotAllowedError" THEN "denied" ELSE cache
  /\ toast' = ErrorMessage(error)
  /\ IF Alive
     THEN /\ permissionState' = IF error.name = "NotAllowedError" THEN "denied"
                                ELSE permissionState
          /\ cameraError' = ErrorMessage(error)
          /\ isRequestingCamera' = FALSE
     ELSE UNCHANGED <<permissionState, cameraError, isRequestingCamera>>
  /\ Render(stream, open, FALSE, scanMode, srcObject, vstate, encodeQueue,
            Ended(failed, Classification(error), ncalls))

\* the tail of the try block once the preview is ready (or was never waited for)
\* and the finally block
Succeed ==
  /\ selectedImage' = "null" /\ imagePreview' = "null" /\ scannedResult' = "null"
  /\ isRequestingCamera' = FALSE

\* ---- startCamera ----

StartCamera ==
  LET i == NextCall
      Earlier == [j \in Calls |-> [calls[j] EXCEPT !.latest = FALSE]]
  IN
  /\ i # 0
  /\ stops' = 0
  /\ UNCHANGED <<hostVars, selectedImage, imagePreview, scannedResult>>
  /\ videoReady' = FALSE
  /\ IF ~supported
     THEN Catch({i}, ErrUnsupported,
                [Earlier EXCEPT ![i].granted = permissionState = "granted",
                                ![i].latest = TRUE])
     ELSE /\ cameraError' = "null"
          /\ isRequestingCamera' = TRUE
          /\ toast' = "none"
          /\ Keep([Earlier EXCEPT ![i] =
                    [pc |-> "awaitGum", gum |-> "pending",
                     timer |-> IF UseTimeout(permissionState) THEN "armed" ELSE "off",
                     useTimeout |-> UseTimeout(permissionState),
                     readyP |-> "none", result |-> "none",
                     granted |-> permissionState = "granted", gumCalls |-> 1,
                     latest |-> TRUE]])
          /\ UNCHANGED <<permissionState, cache>>

\* the 'Start Camera' button is rendered and not disabled
StartCameraEnabled ==
  Alive /\ scanMode = "camera" /\ ~isCameraActive /\ ~isRequestingCamera

\* the 'Try Again' button of the preview overlay is rendered
TryAgainEnabled == Alive /\ VideoMounted /\ ~videoReady /\ cameraError # "null"

\* the 'Start Camera' button
ClickStartCamera == StartCameraEnabled /\ StartCamera

\* the 'Try Again' button of the preview overlay: setCameraError(null); startCamera()
ClickTryAgain == TryAgainEnabled /\ StartCamera

\* ---- stopCamera ----

\* variant: stopCamera returns right after stopping a stream it holds
StopCameraEarlyReturn(held, nqueue) ==
  IF held # 0
  THEN /\ Render(0, open \ {held}, isCameraActive, scanMode, srcObject, vstate, nqueue, calls)
       /\ UNCHANGED <<videoReady, cameraError, isRequestingCamera>>
  ELSE /\ videoReady' = FALSE
       /\ cameraError' = "null"
       /\ isRequestingCamera' = FALSE
       /\ Render(stream, open, FALSE, "upload", 0, "empty", nqueue, calls)

\* stopCamera as run by a closure that holds held as its stream
StopCamera(held, nqueue) ==
  /\ videoReady' = FALSE
  /\ cameraError' = "null"
  /\ isRequestingCamera' = FALSE
  /\ Render(IF held # 0 THEN 0 ELSE stream,
            IF held # 0 THEN open \ {held} ELSE open,
            FALSE, "upload", 0, "empty", nqueue, calls)

\* variant: stopping the camera also abandons the scan and its result
StopClickedResetsScan ==
  /\ StopCamera(stream, encodeQueue)
  /\ toast' = "none"
  /\ stops' = IF stops < 2 THEN stops + 1 ELSE 2
  /\ isScanning' = FALSE
  /\ scannedResult' = "null"
  /\ UNCHANGED <<envVars, scan, reads, verdicts, mounted, query, listening,
                 selectedImage, imagePreview, permissionState, cache>>

\* a handler that calls stopCamera and does nothing else to the session
StopClicked ==
  /\ StopCamera(stream, encodeQueue)
  /\ toast' = "none"
  /\ stops' = IF stops < 2 THEN stops + 1 ELSE 2
  /\ UNCHANGED <<hostVars, selectedImage, imagePreview, scannedResult, permissionState,
                 cache>>

\* the 'Stop' button
ClickStop == Alive /\ scanMode = "camera" /\ isCameraActive /\ StopClicked

\* the 'Cancel' button of the preview overlay
ClickCancel ==
  Alive /\ VideoMounted /\ ~videoReady /\ cameraError = "null" /\ StopClicked

\* the 'Upload Image' tab: setScanMode('upload'); stopCamera()
ClickUploadMode == Alive /\ StopClicked

\* the 'Use Camera' tab: setScanMode('camera')
ClickUseCamera ==
  /\ Alive
  /\ scanMode # "camera"
  /\ toast' = "none" /\ stops' = 0
  /\ Render(stream, open, isCameraActive, "camera", srcObject, vstate, encodeQueue, calls)
  /\ UNCHANGED <<hostVars, selectedImage, imagePreview, scannedResult, cameraError,
                 videoReady, isRequestingCamera, permissionState, cache>>
\* ---- the awaits of startCamera ----

\* getUserMedia of call i resolves: the browser hands over a live MediaStream
GumResolve(i) ==
  LET c == [calls EXCEPT ![i].gum = "resolved"] IN
  /\ calls[i].gum = "pending"
  /\ stops' = 0
  /\ toast' = "none"
  /\ UNCHANGED <<hostVars, cameraError, videoReady>>
  /\ IF calls[i].pc # "awaitGum"
     THEN \* the timer has settled the race: nobody receives the stream
          /\ Render(stream, open \cup {i}, isCameraActive, scanMode, srcObject, vstate,
                    encodeQueue, c)
          /\ UNCHANGED <<selectedImage, imagePreview, scannedResult, isRequestingCamera,
                         permissionState, cache>>
     ELSE /\ cache' = "granted"
          /\ permissionState' = IF Alive THEN "granted" ELSE permissionState
          /\ IF ~Alive
             THEN \* the setters are no-ops and videoRef.current is null
                  /\ Render(stream, open \cup {i}, isCameraActive, scanMode, 0, "empty",
                            encodeQueue, Ended({i}, "ok", c))
                  /\ UNCHANGED <<selectedImage, imagePreview, scannedResult,
                                 isRequestingCamera>>
             ELSE IF VideoMounted
             THEN \* videoRef.current.srcObject = mediaStream; play() is awaited
                  /\ Render(i, open \cup {i}, TRUE, "camera", i, "loading", encodeQueue,
                            [j \in Calls |->
                               IF j = i THEN [c[j] EXCEPT !.pc = "awaitPlay",
                                                          !.readyP = "pending"]
                               ELSE IF c[j].pc = "awaitPlay"
                                    THEN [c[j] EXCEPT !.pc = "playAborted"]
                               ELSE c[j]])
                  /\ UNCHANGED <<selectedImage, imagePreview, scannedResult,
                                 isRequestingCamera>>
             ELSE \* videoRef.current is null: the block is skipped
                  /\ Succeed
                  /\ Render(i, open \cup {i}, TRUE, "camera", 0, "empty", encodeQueue,
                            Ended({i}, "ok", c))

\* getUserMedia of call i rejects with error
GumReject(i, error) ==
  LET c == [calls EXCEPT ![i].gum = "rejected"] IN
  /\ calls[i].gum = "pending"
  /\ stops' = 0
  /\ UNCHANGED <<hostVars, selectedImage, imagePreview, scannedResult, videoReady>>
  /\ IF calls[i].pc # "awaitGum"
     THEN /\ toast' = "none"
          /\ Keep(c)
          /\ UNCHANGED <<cameraError, isRequestingCamera, permissionState, cache>>
     ELSE Catch({i}, error, c)

\* the 10 s timer of call i fires; it rejects the race if the race is still open
\* variant: the timer rejects whatever the call is doing
TimerFireAlwaysRejects(i) ==
  /\ calls[i].timer = "armed"
  /\ stops' = 0
  /\ UNCHANGED <<hostVars, selectedImage, imagePreview, scannedResult, videoReady>>
  /\ Catch({i}, ErrTimer, [calls EXCEPT ![i].timer = "off"])

TimerFire(i) ==
  LET c == [calls EXCEPT ![i].timer = "off"] IN
  /\ calls[i].timer = "armed"
  /\ stops' = 0
  /\ UNCHANGED <<hostVars, selectedImage, imagePreview, scannedResult, videoReady>>
  /\ IF calls[i].pc # "awaitGum"
     THEN /\ toast' = "none"
          /\ Keep(c)
          /\ UNCHANGED <<cameraError, isRequestingCamera, permissionState, cache>>
     ELSE Catch({i}, ErrTimer, c)

\* await videoRef.current.play() of call i resolves
PlayResolve(i) ==
  /\ calls[i].pc = "awaitPlay"
  /\ srcObject \in open
  /\ vstate \in {"loading", "loaded", "canplay"}
  /\ stops' = 0
  /\ UNCHANGED hostVars
  /\ CASE calls[i].readyP = "pending" ->
            \* await videoReadyPromise
            /\ toast' = "none"
            /\ Keep([calls EXCEPT ![i].pc = "awaitReady", ![i].readyP = "none"])
            /\ UNCHANGED <<selectedImage, imagePreview, scannedResult, cameraError,
                           videoReady, isRequestingCamera, permissionState, cache>>
       [] calls[i].readyP = "resolved" ->
            /\ videoReady' = TRUE
            /\ toast' = ToastStarted
            /\ Succeed
            /\ Keep(Ended({i}, "ok", calls))
            /\ UNCHANGED <<cameraError, permissionState, cache>>
       [] calls[i].readyP = "rejected" ->
            /\ Catch({i}, ErrPlayback, calls)
            /\ UNCHANGED <<selectedImage, imagePreview, scannedResult, videoReady>>

\* await videoRef.current.play() of call i rejects
PlayReject(i) ==
  /\ calls[i].pc \in {"awaitPlay", "playAborted"}
  /\ stops' = 0
  /\ Catch({i}, ErrPlayback, calls)
  /\ UNCHANGED <<hostVars, selectedImage, imagePreview, scannedResult, videoReady>>

\* ---- events of the mounted <video> ----

\* the listeners a call added that are still attached settle its videoReadyPromise
Settle(c, outcome) ==
  [i \in Calls |-> IF c[i].pc = "awaitPlay" /\ c[i].readyP = "pending"
                   THEN [c[i] EXCEPT !.readyP = outcome] ELSE c[i]]

\* 'loadeddata': the onLoadedData prop and the listeners of the waiting calls
LoadedData ==
  LET waiting == {i \in Calls : calls[i].pc = "awaitReady"} IN
  /\ VideoMounted /\ srcObject \in open /\ vstate = "loading"
  /\ videoReady' = TRUE
  /\ stops' = 0
  /\ Render(stream, open, isCameraActive, scanMode, srcObject, "loaded", encodeQueue,
            Ended(waiting, "ok", Settle(calls, "resolved")))
  /\ IF waiting # {}
     THEN Succeed /\ toast' = ToastStarted
     ELSE /\ toast' = "none"
          /\ UNCHANGED <<selectedImage, imagePreview, scannedResult, isRequestingCamera>>
  /\ UNCHANGED <<hostVars, cameraError, permissionState, cache>>

\* 'canplay': the onCanPlay prop
CanPlay ==
  /\ VideoMounted /\ srcObject \in open /\ vstate = "loaded"
  /\ videoReady' = TRUE
  /\ toast' = "none" /\ stops' = 0
  /\ Render(stream, open, isCameraActive, scanMode, srcObject, "canplay", encodeQueue, calls)
  /\ UNCHANGED <<hostVars, selectedImage, imagePreview, scannedResult, cameraError,
                 isRequestingCamera, permissionState, cache>>

\* 'error': the onError prop and the listeners of the waiting calls
VideoError ==
  LET waiting == {i \in Calls : calls[i].pc = "awaitReady"} IN
  /\ VideoMounted /\ srcObject # 0 /\ vstate \in {"loading", "loaded", "canplay"}
  /\ stops' = 0
  /\ IF waiting # {}
     THEN Catch(waiting, ErrPlayback, Settle(calls, "rejected"))
     ELSE /\ cameraError' = ErrVideo
          /\ toast' = "none"
          /\ Render(stream, open, isCameraActive, scanMode, srcObject, "error",
                    encodeQueue, Settle(calls, "rejected"))
          /\ UNCHANGED <<isRequestingCamera, permissionState, cache>>
  /\ UNCHANGED <<hostVars, selectedImage, imagePreview, scannedResult, videoReady>>

\* ---- capturePhoto ----

\* the 'Capture' button is rendered and not disabled
CaptureEnabled == Alive /\ scanMode = "camera" /\ isCameraActive /\ videoReady

\* variant: the guard does not look at videoReady
CaptureNotReadyIgnoresVideoReady == ~VideoMounted \/ ~CanvasMounted

\* if (!videoRef.current || !canvasRef.current || !videoReady)
CaptureNotReady == ~VideoMounted \/ ~CanvasMounted \/ ~videoReady

\* video.videoWidth / videoHeight: known once the first frame is loaded
VideoWidth == IF vstate \in {"loaded", "canplay"} THEN NativeWidth ELSE 0
VideoHeight == IF vstate \in {"loaded", "canplay"} THEN NativeHeight ELSE 0

\* a || b || c on numbers
OrElse(a, b, c) == IF a # 0 THEN a ELSE IF b # 0 THEN b ELSE c

\* the layout box of the <video>: <<offsetWidth, offsetHeight>>
LayoutBoxes == {<<0, 0>>, <<OffsetWidth, OffsetHeight>>}

CapturePhoto ==
  /\ Alive
  /\ stops' = 0
  /\ IF CaptureNotReady
     THEN /\ toast' = ToastNotReady
          /\ UNCHANGED <<hostVars, reactVars, cache, open, domVars, calls>>
     ELSE /\ Len(encodeQueue) < MaxEncodes
          /\ \E box \in LayoutBoxes :
               canvas' = <<OrElse(VideoWidth, box[1], DefaultWidth),
                           OrElse(VideoHeight, box[2], DefaultHeight)>>
          \* canvas.toBlob(callback): the callback closes over this render's stopCamera
          /\ encodeQueue' = Append(encodeQueue, stream)
          /\ toast' = "none"
          /\ UNCHANGED <<hostVars, reactVars, cache, open, srcObject, vstate, calls>>

\* variant: the callback publishes the image and leaves the camera running
ToBlobCallbackKeepsCamera(encoded) ==
  /\ encodeQueue # <<>>
  /\ UNCHANGED <<hostVars, scannedResult, permissionState, cache, cameraError, videoReady,
                 isRequestingCamera>>
  /\ selectedImage' = IF Alive /\ encoded THEN "camera-capture.jpg" ELSE selectedImage
  /\ imagePreview' = IF Alive /\ encoded THEN "blob:camera-capture.jpg" ELSE imagePreview
  /\ toast' = IF encoded THEN ToastCaptured ELSE ToastEncodeFailed
  /\ stops' = 0
  /\ Render(stream, open, isCameraActive, scanMode, srcObject, vstate, Tail(encodeQueue),
            calls)

\* the toBlob callback runs, with a blob (encoded = TRUE) or with null
ToBlobCallback(encoded) ==
  /\ encodeQueue # <<>>
  /\ UNCHANGED <<hostVars, scannedResult, permissionState, cache>>
  /\ IF ~Alive
     THEN \* only track.stop() and the toast still have an effect
          /\ toast' = IF encoded THEN ToastCaptured ELSE ToastEncodeFailed
          /\ stops' = 0
          /\ Render(stream, IF encoded THEN open \ {Head(encodeQueue)} ELSE open,
                    isCameraActive, scanMode, srcObject, vstate, Tail(encodeQueue), calls)
          /\ UNCHANGED <<selectedImage, imagePreview, cameraError, videoReady,
                         isRequestingCamera>>
     ELSE IF encoded
     THEN /\ selectedImage' = "camera-capture.jpg"
          /\ imagePreview' = "blob:camera-capture.jpg"
          /\ StopCamera(Head(encodeQueue), Tail(encodeQueue))
          /\ toast' = ToastCaptured
          /\ stops' = IF stops < 2 THEN stops + 1 ELSE 2
     ELSE /\ toast' = ToastEncodeFailed
          /\ stops' = 0
          /\ Render(stream, open, isCameraActive, scanMode, srcObject, vstate,
                    Tail(encodeQueue), calls)
          /\ UNCHANGED <<selectedImage, imagePreview, cameraError, videoReady,
                         isRequestingCamera>>

\* ---- checkCameraPermission ----

\* variant: the permission is probed by asking for the camera
CheckCameraPermissionProbes ==
  /\ mounted = "mounting"
  /\ mounted' = "mounted"
  /\ permissionState' = IF cache = "granted" THEN "granted" ELSE permissionState
  /\ query' = IF permissions = "absent" THEN "none" ELSE "pending"
  /\ toast' = "none" /\ stops' = 0
  /\ calls' = [calls EXCEPT ![1] = [IdleCall EXCEPT !.pc = "awaitGum", !.gum = "pending",
                                                     !.gumCalls = 1]]
  /\ UNCHANGED <<envVars, scanVars, listening, selectedImage, imagePreview, scannedResult,
                 isCameraActive, stream, scanMode, cameraError, videoReady,
                 isRequestingCamera, cache, open, domVars>>

\* The mount effect: checkCameraPermission up to its first await.  The setters
\* of one run are batched, the last one wins.
CheckCameraPermission ==
  /\ mounted = "mounting"
  /\ mounted' = "mounted"
  /\ IF permissions = "absent"
     THEN /\ permissionState' = "unknown"
          /\ query' = "none"
     ELSE /\ permissionState' = IF cache = "granted" THEN "granted" ELSE permissionState
          /\ query' = "pending"
  /\ toast' = "none" /\ stops' = 0
  /\ UNCHANGED <<envVars, scanVars, listening, selectedImage, imagePreview, scannedResult,
                 isCameraActive, stream, scanMode, cameraError, videoReady,
                 isRequestingCamera, cache, open, domVars, calls>>

\* navigator.permissions.query resolves with a PermissionStatus in state s
QueryResolve(s) ==
  /\ query = "pending"
  /\ query' = "done"
  /\ permissionState' = IF Alive THEN s ELSE permissionState
  /\ cache' = s
  /\ listening' = TRUE
  /\ toast' = "none" /\ stops' = 0
  /\ UNCHANGED <<envVars, scanVars, mounted, selectedImage, imagePreview, scannedResult,
                 isCameraActive, stream, scanMode, cameraError, videoReady,
                 isRequestingCamera, open, domVars, calls>>

\* navigator.permissions.query throws: catch { setPermissionState('unknown') }
QueryReject ==
  /\ query = "pending"
  /\ query' = "done"
  /\ permissionState' = IF Alive THEN "unknown" ELSE permissionState
  /\ toast' = "none" /\ stops' = 0
  /\ UNCHANGED <<envVars, scanVars, mounted, listening, selectedImage, imagePreview, scannedResult,
                 isCameraActive, stream, scanMode, cameraError, videoReady,
                 isRequestingCamera, cache, open, domVars, calls>>

\* variant: the listener updates the state and not the cache
PermissionChangeForgetsCache(s) ==
  /\ listening
  /\ permissionState' = IF Alive THEN s ELSE permissionState
  /\ toast' = "none" /\ stops' = 0
  /\ UNCHANGED <<hostVars, selectedImage, imagePreview, scannedResult,
                 isCameraActive, stream, scanMode, cameraError, videoReady,
                 isRequestingCamera, open, domVars, calls, cache>>

\* permission.onchange: the PermissionStatus is now in state s
PermissionChange(s) ==
  /\ listening
  /\ permissionState' = IF Alive THEN s ELSE permissionState
  /\ cache' = s
  /\ toast' = "none" /\ stops' = 0
  /\ UNCHANGED <<hostVars, selectedImage, imagePreview, scannedResult,
                 isCameraActive, stream, scanMode, cameraError, videoReady,
                 isRequestingCamera, open, domVars, calls>>

\* ---- unmount ----

\* The component is unmounted: the [stream] effect cleanup stops the tracks of
\* the held stream, the <video> and the <canvas> leave the document and the
\* component state is gone (it is written here as its initial values).
Unmount ==
  /\ Alive
  /\ mounted' = "unmounted"
  /\ selectedImage' = "null" /\ imagePreview' = "null" /\ scannedResult' = "null"
  /\ cameraError' = "null" /\ videoReady' = FALSE /\ isRequestingCamera' = FALSE
  /\ permissionState' = "unknown"
  /\ Render(0, open, FALSE, "upload", 0, "empty", encodeQueue, calls)
  /\ toast' = "none" /\ stops' = 0
  /\ isScanning' = FALSE
  /\ UNCHANGED <<envVars, scan, reads, verdicts, query, listening, cache>>

\* ---- handleImageSelect ----

\* onChange of the file input, opened by 'Choose Image' in upload mode: a file
\* has been chosen
HandleImageSelect ==
  /\ Alive /\ scanMode = "upload"
  /\ reads < MaxReads
  /\ selectedImage' = "label.jpg"
  /\ scannedResult' = "null"
  /\ reads' = reads + 1
  /\ toast' = "none" /\ stops' = 0
  /\ Keep(calls)
  /\ UNCHANGED <<envVars, mounted, query, listening, isScanning, scan, verdicts,
                 imagePreview, cameraError, videoReady, isRequestingCamera,
                 permissionState, cache>>

\* reader.onload
ReaderLoad ==
  /\ reads > 0
  /\ reads' = reads - 1
  /\ imagePreview' = IF Alive THEN "data:label.jpg" ELSE imagePreview
  /\ toast' = "none" /\ stops' = 0
  /\ Keep(calls)
  /\ UNCHANGED <<envVars, mounted, query, listening, isScanning, scan, verdicts,
                 selectedImage, scannedResult, cameraError, videoReady,
                 isRequestingCamera, permissionState, cache>>

\* ---- the analysis services ----

\* let result: ScannedFood | null = null
NoResult == [from |-> "none", info |-> FALSE, keys |-> 0]

\* the numbers of keys of nutritional_info in an answer of /api/ai_analyze
KeyCounts == {0, MinKeys - 1, MinKeys, MinKeys + 1}

\* The answers of /api/ai_analyze.  status: "error" (fetch rejects), "non2xx" or
\* "ok"; wellFormed: the body parses and its recommendations can be spread;
\* info: it has nutritional_info, with keys keys.
AiAnswers ==
  {[status |-> s, wellFormed |-> FALSE, info |-> FALSE, keys |-> 0] :
     s \in {"error", "non2xx", "ok"}}
  \cup {[status |-> "ok", wellFormed |-> TRUE, info |-> FALSE, keys |-> 0]}
  \cup {[status |-> "ok", wellFormed |-> TRUE, info |-> TRUE, keys |-> k] : k \in KeyCounts}

\* The answers of /api/scan_label: fetch rejects, a response that is not 2xx,
\* a 2xx response whose body is null, a 2xx response with a result.
OcrAnswers == {"error", "non2xx", "null", "result"}

\* the inner try block around the AI request: result after it
AiResult(answer) ==
  IF answer.status = "ok" /\ answer.wellFormed
  THEN [from |-> "ai", info |-> answer.info, keys |-> answer.keys]
  ELSE NoResult

\* result = ocrResult, for a body that is not null
OcrResult == [from |-> "ocr", info |-> TRUE, keys |-> MinKeys]

\* variant: the fallback is taken only when there is no result at all
NeedsOcrWithoutResult(result) == result.from = "none"

\* if (!result || !result.nutritional_info ||
\*     Object.keys(result.nutritional_info).length < 3)
NeedsOcr(result) == result.from = "none" \/ ~result.info \/ result.keys < MinKeys

\* the scan in progress has an AI result of fewer than MinKeys nutritional keys
\* and /api/scan_label answers with a response that is not 2xx
Partial(answer) ==
  /\ answer = "non2xx"
  /\ scan.result.from = "ai" /\ scan.result.info /\ scan.result.keys < MinKeys

\* ---- scanLiveCamera ----

\* the 'Smart Scan' button is rendered and not disabled
SmartScanEnabled ==
  Alive /\ scanMode = "camera" /\ isCameraActive /\ ~isScanning /\ videoReady

\* toast.error(`Failed to scan label: ${error.message}`)
LiveScanError(message) ==
  CASE message = MsgBlobFailed ->
         "Failed to scan label: Failed to capture image from canvas"
    [] message = MsgScanLabelFailed -> "Failed to scan label: Failed to scan label"
    [] message = MsgFetchFailed -> "Failed to scan label: Failed to fetch"
    [] message = MsgBothFailedLive ->
         "Failed to scan label: Both AI and OCR analysis failed. Please try with better lighting or closer to the label."

\* scanLiveCamera up to its first await
ClickSmartScan ==
  /\ SmartScanEnabled
  /\ stops' = 0
  /\ IF ~VideoMounted \/ ~CanvasMounted
     THEN /\ toast' = ToastCameraNotReady
          /\ UNCHANGED <<hostVars, reactVars, cache, open, domVars, calls>>
     ELSE IF VideoWidth = 0 \/ VideoHeight = 0
     THEN /\ toast' = ToastVideoNotReady
          /\ UNCHANGED <<hostVars, reactVars, cache, open, domVars, calls>>
     ELSE /\ isScanning' = TRUE
          /\ canvas' = <<VideoWidth, VideoHeight>>
          \* the call closes over the stopCamera of this render
          /\ scan' = [pc |-> "blob", kind |-> "live", held |-> stream,
                      result |-> NoResult, log |-> <<>>]
          /\ toast' = "none"
          /\ UNCHANGED <<envVars, mounted, query, listening, reads, verdicts, reactVars,
                         cache, open, srcObject, vstate, encodeQueue, calls>>

\* variant: a failed scan stops the camera as a successful one does
LiveScanFailedStopsCamera(message) ==
  /\ toast' = LiveScanError(message)
  /\ isScanning' = FALSE
  /\ scan' = IdleScan
  /\ stops' = 0
  /\ StopCamera(scan.held, encodeQueue)
  /\ UNCHANGED <<envVars, mounted, query, listening, reads, selectedImage, imagePreview,
                 scannedResult, permissionState, cache>>

\* the catch block and the finally block of scanLiveCamera
LiveScanFailed(message) ==
  /\ toast' = LiveScanError(message)
  /\ isScanning' = FALSE
  /\ scan' = IdleScan
  /\ stops' = 0
  /\ Keep(calls)
  /\ UNCHANGED <<envVars, mounted, query, listening, reads, selectedImage, imagePreview,
                 scannedResult, cameraError, videoReady, isRequestingCamera,
                 permissionState, cache>>

\* setScannedResult(result); stopCamera(); toast.success(...); finally
LiveScanPublished(result) ==
  /\ toast' = ToastLiveScanned
  /\ isScanning' = FALSE
  /\ scan' = IdleScan
  /\ UNCHANGED <<envVars, mounted, query, listening, reads, selectedImage, imagePreview,
                 permissionState, cache>>
  /\ IF Alive
     THEN /\ scannedResult' = result.from
          /\ StopCamera(scan.held, encodeQueue)
          /\ stops' = IF stops < 2 THEN stops + 1 ELSE 2
     ELSE \* only track.stop() and the toast still have an effect
          /\ stops' = 0
          /\ Render(stream, open \ {scan.held}, isCameraActive, scanMode, srcObject,
                    vstate, encodeQueue, calls)
          /\ UNCHANGED <<scannedResult, cameraError, videoReady, isRequestingCamera>>

\* the toBlob callback of the scan runs, with a blob (encoded = TRUE) or with
\* null; with a blob the call goes on to fetch /api/ai_analyze
ScanBlob(encoded) ==
  /\ scan.pc = "blob"
  /\ UNCHANGED verdicts
  /\ IF encoded
     THEN /\ scan' = [scan EXCEPT !.pc = "ai", !.log = <<ApiAi>>]
          /\ toast' = "none" /\ stops' = 0
          /\ Keep(calls)
          /\ UNCHANGED <<envVars, mounted, query, listening, reads, isScanning,
                         selectedImage, imagePreview, scannedResult, cameraError,
                         videoReady, isRequestingCamera, permissionState, cache>>
     ELSE LiveScanFailed(MsgBlobFailed)

\* /api/ai_analyze answers the scan of the camera frame
LiveAiResponse(answer) ==
  /\ scan.pc = "ai" /\ scan.kind = "live"
  /\ UNCHANGED verdicts
  /\ IF NeedsOcr(AiResult(answer))
     THEN /\ scan' = [scan EXCEPT !.pc = "ocr", !.result = AiResult(answer),
                                  !.log = Append(@, ApiOcr)]
          /\ toast' = "none" /\ stops' = 0
          /\ Keep(calls)
          /\ UNCHANGED <<envVars, mounted, query, listening, reads, isScanning,
                         selectedImage, imagePreview, scannedResult, cameraError,
                         videoReady, isRequestingCamera, permissionState, cache>>
     ELSE LiveScanPublished(AiResult(answer))

\* /api/scan_label answers the scan of the camera frame: only a 2xx answer
\* with a result lets the call go on
LiveOcrResponse(answer) ==
  /\ scan.pc = "ocr" /\ scan.kind = "live"
  /\ verdicts' = IF Partial(answer) THEN verdicts \cup {"failed"} ELSE verdicts
  /\ CASE answer = "error" -> LiveScanFailed(MsgFetchFailed)
       [] answer = "non2xx" -> LiveScanFailed(MsgScanLabelFailed)
       [] answer = "null" -> LiveScanFailed(MsgBothFailedLive)
       [] answer = "result" -> LiveScanPublished(OcrResult)

\* ---- scanWithAI ----

\* the 'Scan' button of upload mode is rendered and not disabled
ScanEnabled == Alive /\ scanMode = "upload" /\ selectedImage # "null" /\ ~isScanning

\* scanWithAI up to its first await
ClickScan ==
  /\ ScanEnabled
  /\ stops' = 0
  /\ IF selectedImage = "null"
     THEN /\ toast' = "Please select an image first"
          /\ UNCHANGED <<hostVars, reactVars, cache, open, domVars, calls>>
     ELSE /\ isScanning' = TRUE
          /\ scan' = [pc |-> "ai", kind |-> "file", held |-> 0, result |-> NoResult,
                      log |-> <<ApiAi>>]
          /\ toast' = "none"
          /\ UNCHANGED <<envVars, mounted, query, listening, reads, verdicts, reactVars,
                         cache, open, domVars, calls>>

\* the catch block and the finally block of scanWithAI; the message of the one
\* error thrown in the try block has no 'fetch' in it
FileScanFailed ==
  /\ toast' = MsgBothFailedFile
  /\ isScanning' = FALSE
  /\ scan' = IdleScan
  /\ stops' = 0
  /\ Keep(calls)
  /\ UNCHANGED <<envVars, mounted, query, listening, reads, selectedImage, imagePreview,
                 scannedResult, cameraError, videoReady, isRequestingCamera,
                 permissionState, cache>>

\* setScannedResult(result); toast.success(...); finally
FileScanPublished(result) ==
  /\ toast' = ToastFileScanned
  /\ isScanning' = FALSE
  /\ scan' = IdleScan
  /\ stops' = 0
  /\ scannedResult' = IF Alive THEN result.from ELSE scannedResult
  /\ Keep(calls)
  /\ UNCHANGED <<envVars, mounted, query, listening, reads, selectedImage, imagePreview,
                 cameraError, videoReady, isRequestingCamera, permissionState, cache>>

\* /api/ai_analyze answers the scan of the chosen file
FileAiResponse(answer) ==
  /\ scan.pc = "ai" /\ scan.kind = "file"
  /\ UNCHANGED verdicts
  /\ IF NeedsOcr(AiResult(answer))
     THEN /\ scan' = [scan EXCEPT !.pc = "ocr", !.result = AiResult(answer),
                                  !.log = Append(@, ApiOcr)]
          /\ toast' = "none" /\ stops' = 0
          /\ Keep(calls)
          /\ UNCHANGED <<envVars, mounted, query, listening, reads, isScanning,
                         selectedImage, imagePreview, scannedResult, cameraError,
                         videoReady, isRequestingCamera, permissionState, cache>>
     ELSE FileScanPublished(AiResult(answer))

\* /api/scan_label answers the scan of the chosen file: only a 2xx answer
\* replaces the result the AI analysis has left
FileOcrResponse(answer) ==
  LET result == IF answer = "result" THEN OcrResult
                ELSE IF answer = "null" THEN NoResult
                ELSE scan.result
  IN /\ scan.pc = "ocr" /\ scan.kind = "file"
     /\ verdicts' = IF Partial(answer)
                    THEN verdicts \cup {IF result.from = "none" THEN "failed" ELSE "published"}
                    ELSE verdicts
     /\ IF result.from = "none" THEN FileScanFailed ELSE FileScanPublished(result)

\* ---- the specification ----

Next ==
  \/ CheckCameraPermission
  \/ \E s \in PermissionStates : QueryResolve(s)
  \/ QueryReject
  \/ \E s \in PermissionStates : PermissionChange(s)
  \/ Unmount
  \/ ClickUseCamera
  \/ ClickUploadMode
  \/ ClickStartCamera
  \/ ClickTryAgain
  \/ ClickStop
  \/ ClickCancel
  \/ \E i \in Calls : GumResolve(i)
  \/ \E i \in Calls, error \in GumErrors : GumReject(i, error)
  \/ \E i \in Calls : TimerFire(i)
  \/ \E i \in Calls : PlayResolve(i)
  \/ \E i \in Calls : PlayReject(i)
  \/ LoadedData
  \/ CanPlay
  \/ VideoError
  \/ CapturePhoto
  \/ \E encoded \in BOOLEAN : ToBlobCallback(encoded)

Spec == Init /\ [][Next]_vars

\* ---- the scans, from a session that is Ready ----

\* The state of a session that has reached Ready: a startCamera call has
\* returned, the preview plays the stream the state holds, nothing is pending.
\* Spec reaches this state (its second startCamera call ends in it).  ScanNext
\* has the scans and what else can be done to this session short of a new
\* startCamera call.
ScanInit ==
  /\ supported = TRUE /\ permissions = "absent"
  /\ mounted = "mounted" /\ query = "none" /\ listening = FALSE
  /\ selectedImage = "null" /\ imagePreview = "null" /\ scannedResult = "null"
  /\ isCameraActive = TRUE /\ stream = MaxCalls /\ scanMode = "camera"
  /\ cameraError = "null" /\ videoReady = TRUE /\ isRequestingCamera = FALSE
  /\ permissionState = "granted" /\ cache = "granted"
  /\ open = {MaxCalls}
  /\ srcObject = MaxCalls /\ vstate = "canplay"
  /\ canvas = CanvasDefault
  /\ encodeQueue = <<>>
  /\ calls = [i \in Calls |->
                IF i = MaxCalls
                THEN [IdleCall EXCEPT !.pc = "done", !.gum = "resolved", !.useTimeout = TRUE,
                                      !.result = "ok", !.gumCalls = 1, !.latest = TRUE]
                ELSE IdleCall]
  /\ toast = "none"
  /\ stops = 0
  /\ isScanning = FALSE /\ scan = IdleScan /\ reads = 0 /\ verdicts = {}

ScanNext ==
  \/ ClickSmartScan
  \/ \E encoded \in BOOLEAN : ScanBlob(encoded)
  \/ \E answer \in AiAnswers : LiveAiResponse(answer)
  \/ \E answer \in OcrAnswers : LiveOcrResponse(answer)
  \/ HandleImageSelect
  \/ ReaderLoad
  \/ ClickScan
  \/ \E answer \in AiAnswers : FileAiResponse(answer)
  \/ \E answer \in OcrAnswers : FileOcrResponse(answer)
  \/ ClickUseCamera
  \/ ClickUploadMode
  \/ ClickStop
  \/ VideoError
  \/ CapturePhoto
  \/ \E encoded \in BOOLEAN : ToBlobCallback(encoded)
  \/ Unmount

ScanSpec == ScanInit /\ [][ScanNext]_vars

\* ---- the claims ----

\* the session is Ready: active, first frame seen, the held stream is live
Ready == isCameraActive /\ videoReady /\ stream \in open

\* C1: at most one MediaStream has a non-stopped track, in every reachable state
AtMostOneOpenStream == Cardinality(open) <= 1

\* C2: when stopCamera has just run while call i awaited getUserMedia and that
\* request then resolves, the stream is released and the session is not active
StoppedRequestIsReleased ==
  [][\A i \in Calls :
       (stops >= 1 /\ calls[i].pc = "awaitGum" /\ GumResolve(i))
         => (i \notin open' /\ ~isCameraActive' /\ ~videoReady')]_vars

\* C3: a stream that getUserMedia delivers after the timer has won the race is
\* not open
LateStreamIsReleased ==
  \A i \in Calls : (calls[i].result = "Timeout" /\ calls[i].gum = "resolved") => i \notin open

\* C4: after a call has failed on video playback its stream is stopped and is
\* no longer the held stream
PlaybackFailureReleasesStream ==
  \A i \in Calls : calls[i].result = "PlaybackFailed" => (i \notin open /\ stream # i)

\* C5: a call made while permissionState is 'granted' has no timer and does not
\* end with the timeout error, whatever timers earlier calls left armed
GrantedNeverTimesOut ==
  \A i \in Calls : calls[i].granted => (calls[i].timer = "off" /\ calls[i].result # "Timeout")

\* C5 witness: a call made with permission granted awaits getUserMedia while the
\* timer of an earlier call is still armed
GrantedCallWithStaleTimer ==
  \E i, j \in Calls : /\ i # j
                      /\ calls[i].granted /\ calls[i].pc = "awaitGum"
                      /\ calls[j].timer = "armed"

\* C6: when the call made on a fresh component (no stream, permission unknown,
\* no <video> mounted) returns successfully, the session is Ready with its
\* stream bound to the preview and no other stream open
FreshStartReachesReady ==
  [][\A i \in Calls :
       (/\ ~VideoMounted /\ stream = 0 /\ open = {} /\ ~calls[i].granted
        /\ calls[i].pc = "awaitGum" /\ calls'[i].result = "ok")
         => (srcObject' = i /\ videoReady' /\ isCameraActive' /\ open' = {i})]_vars

\* C7: once no startCamera call is running any more, a session whose preview
\* has no source to signal a first frame is not left active and not ready
\* without an error
SilentPreviewEndsInError ==
  (/\ \A i \in Calls : calls[i].pc \in {"idle", "done"}
   /\ isCameraActive /\ stream \in open /\ srcObject = 0)
    => (videoReady \/ cameraError # "null")

\* C8: capturePhoto on a session that is not ready (videoReady false, or no
\* <video>, or no <canvas>) raises the not-ready toast and changes nothing else
NotReadyCaptureIsInert ==
  [][(CapturePhoto /\ (~videoReady \/ ~(scanMode = "camera" /\ isCameraActive)
                         \/ scanMode # "camera"))
       => (toast' = ToastNotReady
           /\ UNCHANGED <<reactVars, cache, open, domVars, calls>>)]_vars

\* C8 witness: capturePhoto has reported not-ready with the <video> mounted
NotReadyReported == toast = ToastNotReady /\ VideoMounted /\ ~videoReady

\* C9: a capture that produces its frame on a Ready session leaves it Ready
CaptureKeepsSession ==
  [][(ToBlobCallback(TRUE) /\ Ready) => Ready']_vars

\* the end state of stopCamera
Stopped ==
  /\ stream = 0 /\ ~isCameraActive /\ ~videoReady /\ ~isRequestingCamera
  /\ cameraError = "null" /\ srcObject = 0

\* C10: stopCamera ends in the stopped state with the held stream's tracks
\* stopped, and a second call in succession changes nothing
StopCameraIdempotent ==
  [][StopClicked
       => (/\ Stopped'
           /\ stream \notin open'
           /\ stops >= 1 => UNCHANGED <<reactVars, cache, open, domVars, calls>>)]_vars

\* C10 witness: stopCamera has run twice in succession
StoppedTwice == stops = 2 /\ Stopped

\* C11: once the component is unmounted no MediaStream it acquired has a live
\* track, also when a getUserMedia request resolves after the unmount
NoStreamOpenAfterUnmount == mounted = "unmounted" => open = {}

\* C12: when the 10 s timer of a call made without granted permission fires
\* while its getUserMedia is still pending, the call ends in the timeout error
\* state: timed-out message, not active, not requesting, no stream held
TimeoutEndsInError ==
  [][\A i \in Calls :
       (Alive /\ calls[i].pc = "awaitGum" /\ ~calls[i].granted /\ TimerFire(i))
         => (/\ cameraError' = ErrTimeout
             /\ ~isCameraActive' /\ ~isRequestingCamera'
             /\ stream' = 0)]_vars

\* the toast of the last step is the error message of a startCamera catch block
CatchRan(message) == Alive /\ toast = message

\* C13: when getUserMedia rejects with NotAllowedError on a session that has no
\* stream (none held, none open), the call ends with the access-denied message,
\* the session not active, no stream open, and permissionState and the cached
\* 'camera-permission' both 'denied'
DenialEndsInError ==
  [][\A i \in Calls :
       (/\ Alive /\ stream = 0 /\ open = {} /\ calls[i].pc = "awaitGum"
        /\ GumReject(i, [name |-> "NotAllowedError", message |-> "Permission denied"]))
         => (/\ cameraError' = ErrDenied
             /\ ~isCameraActive' /\ stream' = 0 /\ open' = {}
             /\ permissionState' = "denied" /\ cache' = "denied")]_vars

\* C13 witness: a permission denial has just been handled on a session without
\* a stream
DenialHandled ==
  /\ CatchRan(ErrDenied) /\ cameraError = ErrDenied
  /\ stream = 0 /\ open = {} /\ cache = "denied"

\* C14: a capture that produces its frame ends the session: one image is
\* published by the one pending callback, the stream state is null, the
\* tracks of the stream that was held are stopped, and the session is neither
\* active nor ready
CaptureThenStopped ==
  [][(Alive /\ ToBlobCallback(TRUE))
       => (/\ Stopped' /\ scanMode' = "upload"
           /\ selectedImage' = "camera-capture.jpg"
           /\ imagePreview' = "blob:camera-capture.jpg"
           /\ Len(encodeQueue') = Len(encodeQueue) - 1
           /\ stream \notin open' /\ Head(encodeQueue) \notin open')]_vars

\* C14 witness: a photo has just been captured from a started camera and the
\* session is stopped
PhotoCaptured ==
  /\ Alive /\ toast = ToastCaptured /\ selectedImage = "camera-capture.jpg"
  /\ Stopped /\ open = {}

\* the messages a startCamera catch block can show
FailureMessages ==
  {ErrorMessage(e) : e \in GumErrors \cup {ErrTimer, ErrPlayback, ErrUnsupported}}

\* C15: after every failure (a startCamera call has failed, or the preview has
\* raised an error event) an error is shown and the session is neither active
\* nor requesting
FailureEndsInError ==
  [][(Alive /\ (VideoError \/ toast' \in FailureMessages))
       => (cameraError' # "null" /\ ~isCameraActive' /\ ~isRequestingCamera')]_vars

\* the messages shown for the NotSupported and DeviceNotFound classes
NotRetryableMessages ==
  {ErrNotFound, ErrNotSupported, Unclassified(MsgNotSupportedThrown)}

\* C16: while the error of a NotSupported or DeviceNotFound failure is shown,
\* no button that calls startCamera is enabled
NotRetryableHasNoRetry ==
  (Alive /\ cameraError \in NotRetryableMessages)
    => ~(StartCameraEnabled \/ TryAgainEnabled)

\* C17: a failed startCamera sets permissionState and the cached
\* 'camera-permission' to 'denied' when the failure is a permission denial and
\* leaves both as they were for every other failure
DenialOnlyOnNotAllowed ==
  [][(toast' \in FailureMessages)
       => IF toast' = ErrDenied
          THEN cache' = "denied" /\ (Alive => permissionState' = "denied")
          ELSE UNCHANGED <<permissionState, cache>>]_vars

\* C17 witness: a call has just failed for another reason than a denial while
\* the permission was known to be granted
OtherFailureKeepsGrant ==
  /\ Alive /\ toast \in FailureMessages \ {ErrDenied}
  /\ permissionState = "granted" /\ cache = "granted"

\* C18: while a startCamera call is pending (isRequestingCamera) the Capture
\* button is not enabled
NoCaptureWhileRequesting == isRequestingCamera => ~CaptureEnabled

\* C19: when the permission cannot be queried (navigator.permissions absent, or
\* the query throws) and the cache holds 'granted', permissionState is
\* 'granted' when checkCameraPermission has completed
CachedGrantIsKept ==
  [][(/\ cache = "granted"
      /\ \/ CheckCameraPermission /\ permissions = "absent"
         \/ Alive /\ QueryReject)
       => permissionState' = "granted"]_vars

\* C20: a startCamera call makes at most one getUserMedia request, and a
\* request is made only by a step in which the user calls startCamera
NoAutomaticRetry ==
  [][\A i \in Calls :
       /\ calls'[i].gumCalls <= 1
       /\ calls'[i].gumCalls > calls[i].gumCalls
            => (ClickStartCamera \/ ClickTryAgain)]_vars

\* C20 witness: a call that asked for the camera has just failed and no
\* request is pending
FailedWithoutRetry ==
  /\ Alive /\ toast \in FailureMessages \ {Unclassified(MsgNotSupportedThrown)}
  /\ \A i \in Calls : calls[i].gum # "pending"

\* C21: no step of checkCameraPermission (the mount effect, the end of the
\* permission query, the permission-change listener) asks for the camera or
\* acquires a stream
PermissionCheckNeverPrompts ==
  [][(\/ CheckCameraPermission
      \/ \E s \in PermissionStates : QueryResolve(s)
      \/ QueryReject
      \/ \E s \in PermissionStates : PermissionChange(s))
       => UNCHANGED <<calls, open, stream>>]_vars

\* C21 witness: checkCameraPermission has run to its end, the listener has been
\* called, and no getUserMedia request has been made
PermissionCheckedWithoutRequest ==
  /\ Alive /\ query = "done" /\ listening /\ permissionState = "denied"
  /\ \A i \in Calls : calls[i].gumCalls = 0
  /\ open = {}

\* the calls that have neither returned nor failed yet
InProgress == {"awaitGum", "awaitPlay", "awaitReady"}

\* C22: while the latest startCamera call is in progress no error is shown
NoErrorDuringLatestAttempt ==
  \A i \in Calls :
    (Alive /\ calls[i].latest /\ calls[i].pc \in InProgress) => cameraError = "null"

\* capturePhoto has passed its guards and sized the canvas in this step
FrameTaken == CapturePhoto /\ Len(encodeQueue') = Len(encodeQueue) + 1

\* C23: a captured frame has the native size of the video when that is known
\* and is 640 x 480 otherwise
FrameIsNativeOrDefault ==
  [][FrameTaken
       => canvas' = IF VideoWidth # 0 /\ VideoHeight # 0
                    THEN <<VideoWidth, VideoHeight>>
                    ELSE <<DefaultWidth, DefaultHeight>>]_vars

\* C25: videoReady is set only while the camera is active and the stream state
\* holds an open stream
VideoReadyImpliesLiveSession ==
  videoReady => (isCameraActive /\ stream # 0 /\ stream \in open)

\* C26: the timer of a call whose getUserMedia has resolved fires without effect
LateTimerIsInert ==
  [][\A i \in Calls :
       (calls[i].gum = "resolved" /\ TimerFire(i))
         => /\ UNCHANGED <<cameraError, isCameraActive, isRequestingCamera,
                           videoReady, permissionState, cache, stream, open,
                           srcObject, vstate>>
            /\ toast' = "none"
            /\ stops' = 0]_vars

\* C26 witness: the timer of the call that holds the open stream has fired
\* while the call was past getUserMedia, and the session is still active
TimerFiredOnActiveSession ==
  \E i \in Calls :
    /\ calls[i].useTimeout /\ calls[i].timer = "off" /\ calls[i].gum = "resolved"
    /\ calls[i].pc \in {"awaitPlay", "awaitReady"}
    /\ Alive /\ isCameraActive /\ stream = i /\ i \in open /\ cameraError = "null"

\* C28: permissionState is 'unknown' or the cached value, and 'unknown' is
\* never cached
PermissionStateMatchesCache ==
  /\ Alive => permissionState \in {"unknown", cache}
  /\ cache \in {"null"} \cup PermissionStates

\* C28 witness: startCamera was called while the state was 'granted' (read from
\* the cache on mount) and the permission query or its listener has since set
\* the state and the cache to 'prompt'
PermissionRevokedAfterGrant ==
  /\ Alive /\ listening /\ permissionState = "prompt" /\ cache = "prompt"
  /\ \E i \in Calls : calls[i].granted

\* C24: a scan requests /api/ai_analyze first, and requests /api/scan_label
\* exactly when the AI analysis has left no result or a result whose
\* nutritional_info is missing or has fewer than 3 keys
AiFirstThenOcrOnDemand ==
  [][/\ scan'.log \in {<<>>, <<ApiAi>>, <<ApiAi, ApiOcr>>}
     /\ \A answer \in AiAnswers :
          (LiveAiResponse(answer) \/ FileAiResponse(answer))
            => ((scan'.log = <<ApiAi, ApiOcr>>)
                  <=> \/ answer.status # "ok" \/ ~answer.wellFormed
                      \/ ~answer.info
                      \/ answer.keys < 3)]_vars

\* C24 witness: the AI analysis of a camera frame has answered with 2
\* nutritional keys and the scan has gone on to /api/scan_label
OcrRequestedForPartialResult ==
  /\ scan.kind = "live" /\ scan.pc = "ocr" /\ scan.log = <<ApiAi, ApiOcr>>
  /\ scan.result.from = "ai" /\ scan.result.info /\ scan.result.keys = 2

\* C27: for an AI result with fewer than 3 nutritional keys and an answer of
\* /api/scan_label that is not 2xx, scanWithAI and scanLiveCamera end alike
HandlersAgreeOnPartialResult == Cardinality(verdicts) <= 1

\* a step of scanLiveCamera
LiveScanStep ==
  \/ ClickSmartScan
  \/ \E encoded \in BOOLEAN : ScanBlob(encoded)
  \/ \E answer \in AiAnswers : LiveAiResponse(answer)
  \/ \E answer \in OcrAnswers : LiveOcrResponse(answer)

\* scanLiveCamera returns in this step
LiveScanEnds == scan.kind = "live" /\ scan'.pc = "idle" /\ LiveScanStep

\* C29: scanLiveCamera stops the camera only when the scan has succeeded; a
\* scan that fails leaves the stream open and isCameraActive, videoReady and
\* scannedResult as they are; isScanning is false when the call returns
LiveScanStopsOnlyOnSuccess ==
  [][/\ (LiveScanStep /\ toast' # ToastLiveScanned)
          => UNCHANGED <<stream, open, isCameraActive, videoReady, scannedResult,
                         scanMode, srcObject>>
     /\ (LiveScanStep /\ Alive /\ toast' = ToastLiveScanned)
          => (scannedResult' \in {"ai", "ocr"} /\ ~isCameraActive' /\ scan.held \notin open')
     /\ LiveScanEnds => ~isScanning']_vars

\* C29 witness: a scan of a camera frame has failed and the session is Ready
LiveScanFailedSessionReady ==
  /\ Alive /\ Ready /\ ~isScanning /\ scan = IdleScan
  /\ toast = LiveScanError(MsgScanLabelFailed)

\* C30: stopCamera leaves permissionState, the cached permission, the selected
\* image, its preview, the scan result and isScanning as they are
StopCameraKeepsTheRest ==
  [][StopClicked => UNCHANGED <<permissionState, cache, selectedImage, imagePreview,
                                scannedResult, isScanning>>]_vars

\* C30 witness: the camera was stopped while a scan of a frame was in progress
StoppedDuringLiveScan ==
  /\ Alive /\ stops > 0 /\ ~isCameraActive
  /\ isScanning /\ scan.kind = "live" /\ scan.pc # "idle" /\ scan.held \notin open
  /\ permissionState = "granted" /\ cache = "granted"

====
